---- MODULE Spec2Model ----
(***************************************************************************)
(* Model of Image-Tracker (src/app.py): a Flask application that issues    *)
(* tracked artifacts (/make) and records every retrieval of their beacon   *)
(* URLs (/track, /proxy_image, /dl_pdf) in the sqlite table `hits`.        *)
(*                                                                         *)
(* Time is counted in minutes: one tick of `now` is one window of the      *)
(* "60 per minute" limit.  Python None and SQL NULL are the string NONE;   *)
(* every text and REAL column is a string so that it can be compared with  *)
(* NONE.                                                                   *)
(***************************************************************************)
EXTENDS Integers, Sequences, FiniteSets, TLC

VARIABLES
    GEO_DB,     \* "loaded" when GeoLite2-City.mmdb was opened at import, else NONE
    now,        \* the clock, in minutes
    limStore,   \* the limiter's memory:// storage: key -> [count, expiry]
    hits,       \* the committed rows of table hits, in rowid order
    users,      \* the committed rows of table users
    session,    \* the browser's session cookie: the keys the routes set
    files,      \* the names present in OUTDIR
    pings,      \* history: requests each address sent to each hit route this
                \* minute, requests of each address answered 429 or 500, and
                \* requests that named each token in their URL
    req,        \* the requests being handled, one slot per worker thread
    dbLock      \* the holders of sqlite's write lock on hits.db: the thread whose
                \* transaction is open, or Dropped

vars == <<GEO_DB, now, limStore, hits, users, session, files, pings, req, dbLock>>

----------------------------------------------------------------------------
(* Bounds of the model.                                                    *)

\* rows the hit store may hold in Spec, where every caller and token is drawn
MaxHits == 1
\* rows the hit store may hold in SpecDeep, where one caller pings one token
MaxDeep == 2
\* requests the concurrent specifications receive
MaxCalls == 2
\* pings past the ceiling that one window may receive in SpecRate
MaxExtra == 1
\* the last minute the clock reaches
MaxTime == 1
\* worker threads handling requests at once in the concurrent specifications
NumHandlers == 2

----------------------------------------------------------------------------
(* Values.                                                                 *)

NONE == "None"
ANON == "anonymous"
ADMIN_ID == "admin"
ADMIN_PASSWORD == "admin123"
NoHolder == {}
\* a connection that no view holds any more and that has not been finalised
Dropped == 0

\* the 8-character tokens shortuuid.uuid()[:8] may return
Ids == {"abcd1234", "zzzz9999"}

\* A caller: its transport address, its X-Forwarded-For header (the list of
\* comma-separated entries, when sent), its User-Agent header (when sent) and
\* whether it returns the session cookie.
Browser == [remote |-> "10.0.0.5", hasXff |-> FALSE, xff |-> <<>>,
            hasUa |-> TRUE, ua |-> "TestUA/1.0", cookies |-> TRUE]
Viewer == [remote |-> "10.0.0.2", hasXff |-> TRUE, xff |-> <<"203.0.113.5", "10.0.0.2">>,
           hasUa |-> FALSE, ua |-> "", cookies |-> FALSE]
Viewer2 == [remote |-> "10.0.0.3", hasXff |-> TRUE, xff |-> <<"203.0.113.5", "10.0.0.3">>,
            hasUa |-> FALSE, ua |-> "", cookies |-> FALSE]
\* the server itself, fetching its own /track URL through reportlab's ImageReader
Self == [remote |-> "127.0.0.1", hasXff |-> FALSE, xff |-> <<>>,
         hasUa |-> TRUE, ua |-> "Python-urllib", cookies |-> FALSE]

Clients == {Browser, Viewer}
RateClients == {Viewer, Viewer2}
AllClients == {Browser, Viewer, Viewer2, Self}

HitRoutes == {"track", "proxy_image", "dl_pdf"}

Unknown == [lat |-> NONE, lon |-> NONE, city |-> NONE, region |-> NONE, country |-> NONE]
Paris == [lat |-> "48.85", lon |-> "2.35", city |-> "Paris",
          region |-> "Ile-de-France", country |-> "France"]
\* the addresses the geo database and ip-api.com can place; private and
\* loopback addresses are in neither
GeoData == [ip \in {"203.0.113.5"} |-> Paris]
\* what one call of ip-api.com may do: answer, or fail (timeout, bad JSON)
Services == {"answers", "fails"}

EmptySession == [username |-> NONE, user_id |-> NONE, admin |-> NONE, role |-> NONE]

\* file names of OUTDIR: f"{stem}_{track_id}.{ext}"
Name(stem, id, ext) == <<stem, id, ext>>
AllNames == {Name("tracked", i, "svg") : i \in Ids} \cup {Name("tracked", i, "png") : i \in Ids}
            \cup {Name("wrapped", i, "html") : i \in Ids} \cup {Name("wrapped", i, "pdf") : i \in Ids}

\* a response body: its content type, what it is, and the file it streams
Body(mime, kind, name) == [mime |-> mime, kind |-> kind, name |-> name]
png1 == Body("image/png", "pixel", <<>>)
NotFound == Body("text/html", "Not found", <<>>)
RedirectTo(route) == Body("text/html", "redirect", <<route>>)
Page(template) == Body("text/html", "page", <<template>>)

----------------------------------------------------------------------------
(* The limiter (flask_limiter, fixed windows in memory).                   *)

\* key_func: the transport address of the request
get_remote_address(c) == c.remote

\* the limits of a route: amount per window (in minutes), smallest first
\* @limiter.limit("60 per minute") on track
PerMinute == 60

LimitsOf(route) ==
    IF route = "track" THEN <<[amount |-> PerMinute, per |-> 1]>>
    ELSE <<[amount |-> 200, per |-> 60], [amount |-> 2000, per |-> 1440]>>

\* the storage holds an entry per key that was hit: <<route, address, limit>>
NoEntry == [count |-> 0, expiry |-> 0]
Entry(store, k) == IF k \in DOMAIN store THEN store[k] ELSE NoEntry

Live(e, t) == e.count > 0 /\ e.expiry > t

\* a faulty variant: the hit that reaches the amount is already refused
WithinAmountStrict(n, amount) == n < amount

\* one hit of a fixed window: the counter is incremented, the window opens
\* with the first hit and the hit passes while the counter is within the amount
WithinAmount(n, amount) == n <= amount

HitEntry(e, lim, t) ==
    IF Live(e, t) THEN [count |-> e.count + 1, expiry |-> e.expiry]
    ELSE [count |-> 1, expiry |-> t + lim.per]

RECURSIVE CheckFrom(_, _, _, _, _)
CheckFrom(i, route, addr, store, t) ==
    IF i > Len(LimitsOf(route)) THEN [ok |-> TRUE, store |-> store]
    ELSE LET lim == LimitsOf(route)[i]
             k == <<route, addr, i>>
             e == HitEntry(Entry(store, k), lim, t)
             s == [x \in DOMAIN store \cup {k} |-> IF x = k THEN e ELSE store[x]]
         IN IF WithinAmount(e.count, lim.amount) THEN CheckFrom(i + 1, route, addr, s, t)
            ELSE [ok |-> FALSE, store |-> s]

\* the check flask_limiter runs before the view function
limiter(route, c, store, t) == CheckFrom(1, route, get_remote_address(c), store, t)

\* the storage's expiry timer
Expire(store, t) == [k \in {x \in DOMAIN store : Live(store[x], t)} |-> store[k]]

----------------------------------------------------------------------------
(* The hit store.                                                          *)

\* datetime.datetime.utcnow().isoformat() + "Z"
utcnow(t) == <<t, "Z">>

\* INTEGER PRIMARY KEY AUTOINCREMENT
NextRowId(table) == IF table = <<>> THEN 1 ELSE table[Len(table)].id + 1

\* a variant that stores one fixed token whatever the URL carried
RowOneToken(table, track_id, user_id, ip, ua, t, loc) ==
    [id |-> NextRowId(table), track_id |-> "abcd1234", user_id |-> user_id, ip |-> ip,
     ua |-> ua, ts |-> utcnow(t), lat |-> loc.lat, lon |-> loc.lon, city |-> loc.city,
     region |-> loc.region, country |-> loc.country]

Row(table, track_id, user_id, ip, ua, t, loc) ==
    [id |-> NextRowId(table), track_id |-> track_id, user_id |-> user_id, ip |-> ip,
     ua |-> ua, ts |-> utcnow(t), lat |-> loc.lat, lon |-> loc.lon, city |-> loc.city,
     region |-> loc.region, country |-> loc.country]

\* a faulty variant: INSERT OR REPLACE keyed by the token
insert_hit_replace(table, track_id, user_id, ip, ua, t, loc) ==
    LET old == {k \in 1..Len(table) : table[k].track_id = track_id}
        row == Row(table, track_id, user_id, ip, ua, t, loc)
    IN IF old = {} THEN Append(table, row)
       ELSE [k \in 1..Len(table) |-> IF k \in old THEN row ELSE table[k]]

insert_hit(table, track_id, user_id, ip, ua, t, loc) ==
    Append(table, Row(table, track_id, user_id, ip, ua, t, loc))

----------------------------------------------------------------------------
(* The geo resolver.                                                       *)

\* a faulty variant: a failed lookup is answered with a default place
geo_ip_default(db, ip, svc) ==
    [path |-> IF db # NONE THEN "local" ELSE "remote",
     loc |-> IF ip \in DOMAIN GeoData /\ svc = "answers" THEN GeoData[ip] ELSE Paris]

\* geo_ip: the definition chosen at import.  With the database, a lookup that
\* raises gives five Nones; without it, ip-api.com is asked and anything but a
\* "success" answer gives five Nones.
geo_ip(db, ip, svc) ==
    IF db # NONE
    THEN [path |-> "local", loc |-> IF ip \in DOMAIN GeoData THEN GeoData[ip] ELSE Unknown]
    ELSE [path |-> "remote",
          loc |-> IF svc = "answers" /\ ip \in DOMAIN GeoData THEN GeoData[ip] ELSE Unknown]

----------------------------------------------------------------------------
(* Request parsing.                                                        *)

\* request.headers.get("X-Forwarded-For", request.remote_addr).split(",")[0].strip()
ForwardedFor(c) == IF c.hasXff THEN c.xff ELSE <<c.remote>>

\* a faulty variant: the header is ignored
ClientIpRemote(c) == c.remote

\* ip: the first entry
ClientIp(c) == ForwardedFor(c)[1]

\* request.headers.get("User-Agent", "")
UserAgent(c) == IF c.hasUa THEN c.ua ELSE ""

\* the session the request carries
Cookie(c) == IF c.cookies THEN session ELSE EmptySession

\* session.get("user_id", "anonymous")
\* a variant that takes the username for the user id
RequesterIdName(s) == IF s.username = NONE THEN ANON ELSE s.username
RequesterId(s) == IF s.user_id = NONE THEN ANON ELSE s.user_id

----------------------------------------------------------------------------
(* The hit-recording routes, each as the outcome of one whole request.     *)

Throttled(store) ==
    [status |-> 429, body |-> Body("text/html", "Too Many Requests", <<>>), hits |-> hits,
     limStore |-> store, resolver |-> "not called"]

\* lines 342-346, 328-332, 353-357: parse, resolve, record
Recorded(table, s, c, track_id, svc) ==
    LET g == geo_ip(GEO_DB, ClientIp(c), svc)
    IN [hits |-> insert_hit(table, track_id, RequesterId(s), ClientIp(c),
                            UserAgent(c), now, g.loc),
        resolver |-> g.path]

track(c, track_id, svc) ==
    LET lim == limiter("track", c, limStore, now)
        r == Recorded(hits, Cookie(c), c, track_id, svc)
    IN IF ~lim.ok THEN Throttled(lim.store)
       ELSE [status |-> 200, body |-> png1, hits |-> r.hits, limStore |-> lim.store,
             resolver |-> r.resolver]

\* send_file, or "Not found" when os.path.exists fails
Served(name, mime) ==
    IF name \in files THEN [status |-> 200, body |-> Body(mime, "file", name)]
    ELSE [status |-> 404, body |-> NotFound]

\* a faulty variant: the file is looked for before the hit is recorded
proxy_image_checked(c, track_id, filename, svc) ==
    LET lim == limiter("proxy_image", c, limStore, now)
        r == Recorded(hits, Cookie(c), c, track_id, svc)
        f == Served(filename, "image/png")
    IN IF ~lim.ok THEN Throttled(lim.store)
       ELSE IF f.status = 404
       THEN [status |-> 404, body |-> f.body, hits |-> hits, limStore |-> lim.store,
             resolver |-> "not called"]
       ELSE [status |-> f.status, body |-> f.body, hits |-> r.hits, limStore |-> lim.store,
             resolver |-> r.resolver]

proxy_image(c, track_id, filename, svc) ==
    LET lim == limiter("proxy_image", c, limStore, now)
        r == Recorded(hits, Cookie(c), c, track_id, svc)
        f == Served(filename, "image/png")
    IN IF ~lim.ok THEN Throttled(lim.store)
       ELSE [status |-> f.status, body |-> f.body, hits |-> r.hits, limStore |-> lim.store,
             resolver |-> r.resolver]

dl_pdf(c, track_id, pdfname, svc) ==
    LET lim == limiter("dl_pdf", c, limStore, now)
        r == Recorded(hits, Cookie(c), c, track_id, svc)
        f == Served(pdfname, "application/pdf")
    IN IF ~lim.ok THEN Throttled(lim.store)
       ELSE [status |-> f.status, body |-> f.body, hits |-> r.hits, limStore |-> lim.store,
             resolver |-> r.resolver]

\* the content type download_generated derives from the extension
MimeOf(name) ==
    CASE name[3] = "svg" -> "image/svg+xml"
      [] name[3] = "png" -> "image/png"
      [] name[3] = "html" -> "text/html"
      [] name[3] = "pdf" -> "application/pdf"
      [] OTHER -> "application/octet-stream"

download_generated(name) == Served(name, MimeOf(name))

----------------------------------------------------------------------------
(* Accounts and the session.                                               *)

\* a session key counts as set when it holds a value Python treats as true
Truthy(v) == v \notin {NONE, "False", ""}

\* werkzeug's salted hash, and its check
generate_password_hash(password) == <<"pbkdf2", password>>
check_password_hash(hash, password) == hash = generate_password_hash(password)

\* SELECT id, username, password FROM users WHERE username=?
UsersNamed(table, username) == {i \in 1..Len(table) : table[i].username = username}

\* a variant in which a failed login drops the login in force
login_resets(s, username, password) ==
    IF username = ADMIN_ID /\ password = ADMIN_PASSWORD
    THEN [status |-> 302, body |-> RedirectTo("make"),
          session |-> [username |-> username, user_id |-> "admin", admin |-> "True",
                       role |-> "admin"]]
    ELSE LET found == UsersNamed(users, username)
         IN IF \E i \in found : check_password_hash(users[i].password, password)
            THEN LET user == users[CHOOSE i \in found : TRUE]
                 IN [status |-> 302, body |-> RedirectTo("make"),
                     session |-> [username |-> user.username, user_id |-> ToString(user.id),
                                  admin |-> "False", role |-> "user"]]
            ELSE [status |-> 200, body |-> Page("login.html"), session |-> EmptySession]

login(s, username, password) ==
    IF username = ADMIN_ID /\ password = ADMIN_PASSWORD
    THEN [status |-> 302, body |-> RedirectTo("make"),
          session |-> [username |-> username, user_id |-> "admin", admin |-> "True",
                       role |-> "admin"]]
    ELSE LET found == UsersNamed(users, username)
         IN IF \E i \in found : check_password_hash(users[i].password, password)
            THEN LET user == users[CHOOSE i \in found : TRUE]
                 IN [status |-> 302, body |-> RedirectTo("make"),
                     session |-> [username |-> user.username, user_id |-> ToString(user.id),
                                  admin |-> "False", role |-> "user"]]
            ELSE [status |-> 200, body |-> Page("login.html"), session |-> s]

register(username, password) ==
    IF username = "" \/ password = ""
    THEN [status |-> 302, body |-> RedirectTo("register"), users |-> users]
    ELSE IF UsersNamed(users, username) # {}
         THEN [status |-> 200, body |-> Page("register.html"), users |-> users]
         ELSE [status |-> 302, body |-> RedirectTo("login"),
               users |-> Append(users, [id |-> Len(users) + 1, username |-> username,
                                        password |-> generate_password_hash(password)])]

\* a variant that leaves the username in the session
logout_keeps_username(s) ==
    [status |-> 302, body |-> RedirectTo("login"),
     session |-> [s EXCEPT !.admin = NONE, !.user_id = NONE, !.role = NONE]]

logout(s) ==
    [status |-> 302, body |-> RedirectTo("login"),
     session |-> [s EXCEPT !.admin = NONE, !.user_id = NONE, !.username = NONE,
                           !.role = NONE]]

----------------------------------------------------------------------------
(* Generation.                                                             *)

\* request.form.get("mode", "png")
ModeOf(form) == IF form.mode = NONE THEN "png" ELSE form.mode

Forms == [mode : {NONE, "svg", "png", "gif"}, image : {"none", "valid", "corrupt"}]

\* create_pdf_with_pixel: ImageReader(tracking_url) requests the server's own
\* /track URL; when the request is answered it is an ordinary ping by the
\* server, and any failure to fetch or decode is skipped.  The PDF is saved at
\* the end.
create_pdf_with_pixel(track_id, fetch, svc) ==
    LET ping == track(Self, track_id, svc)
    IN IF fetch = "answered"
       THEN [hits |-> ping.hits, limStore |-> ping.limStore,
             written |-> {Name("wrapped", track_id, "pdf")}]
       ELSE [hits |-> hits, limStore |-> limStore,
             written |-> {Name("wrapped", track_id, "pdf")}]

make(s, method, form, track_id, fetch, svc) ==
    LET same == [hits |-> hits, limStore |-> limStore, files |-> files]
        pdf == create_pdf_with_pixel(track_id, fetch, svc)
    IN IF ~(Truthy(s.admin) \/ Truthy(s.username))
       THEN [status |-> 302, body |-> RedirectTo("login")] @@ same
       ELSE IF method # "POST"
       THEN [status |-> 200, body |-> Page("make.html")] @@ same
       ELSE IF form.image = "corrupt"
       THEN [status |-> 500, body |-> Page("error")] @@ same
       ELSE IF ModeOf(form) = "svg"
       THEN [status |-> 200, body |-> Body("text/html", "made_file", <<track_id, "SVG">>),
             hits |-> hits, limStore |-> limStore,
             files |-> files \cup {Name("tracked", track_id, "svg"),
                                   Name("wrapped", track_id, "html")}]
       ELSE [status |-> 200, body |-> Body("text/html", "made_file", <<track_id, "PNG">>),
             hits |-> pdf.hits, limStore |-> pdf.limStore,
             files |-> files \cup {Name("tracked", track_id, "png"),
                                   Name("wrapped", track_id, "html")} \cup pdf.written]

----------------------------------------------------------------------------
(* Listing.                                                                *)

RECURSIVE Reverse(_)
Reverse(q) == IF q = <<>> THEN <<>> ELSE Append(Reverse(Tail(q)), Head(q))

FirstN(q, n) == SubSeq(q, 1, IF Len(q) < n THEN Len(q) ELSE n)

\* SELECT ... FROM hits ORDER BY id DESC LIMIT ?
fetch_hits(table, limit) == FirstN(Reverse(table), limit)

NA(v) == IF v = NONE THEN "N/A" ELSE v
SafeRow(r) == [r EXCEPT !.lat = NA(@), !.lon = NA(@), !.city = NA(@), !.region = NA(@),
                        !.country = NA(@)]

logs(s) ==
    IF ~Truthy(s.admin) THEN [status |-> 302, body |-> RedirectTo("login"), rows |-> <<>>]
    ELSE LET rows == fetch_hits(hits, 1000)
         IN [status |-> 200, body |-> Page("logs.html"),
             rows |-> [i \in 1..Len(rows) |-> SafeRow(rows[i])]]

api_logs(s) ==
    IF ~Truthy(s.admin) THEN [status |-> 401, body |-> Body("application/json", "error", <<>>),
                              rows |-> <<>>]
    ELSE [status |-> 200, body |-> Body("application/json", "rows", <<>>),
          rows |-> fetch_hits(hits, 1000)]

----------------------------------------------------------------------------
(* The state after import: init_db has created empty tables, the limiter    *)
(* has counted nothing, OUTDIR is empty and no request is being handled.    *)

Handlers == 1..NumHandlers
Idle == [pc |-> "idle"]

Init ==
    /\ GEO_DB \in {"loaded", NONE}
    /\ now = 0
    /\ limStore = <<>>
    /\ hits = <<>>
    /\ users = <<>>
    /\ session = EmptySession
    /\ files = {}
    /\ pings = <<>>
    /\ req = [h \in Handlers |-> Idle]
    /\ dbLock = NoHolder

----------------------------------------------------------------------------
(* One action per route: the whole request, handled alone.  `cap` bounds    *)
(* the rows of the store and the requests one address sends in a minute.    *)

Sent(route, c) == IF <<route, c.remote>> \in DOMAIN pings THEN pings[<<route, c.remote>>] ELSE 0
Bump(route, c) ==
    [k \in DOMAIN pings \cup {<<route, c.remote>>} |->
        IF k = <<route, c.remote>> THEN Sent(route, c) + 1 ELSE pings[k]]
\* the history after a request to a hit route was answered with `status`
Counted(route, c, status) ==
    LET b == Bump(route, c)
        k429 == <<"429", c.remote>>
    IN IF status # 429 THEN b
       ELSE [k \in DOMAIN b \cup {k429} |-> IF k = k429 THEN Sent("429", c) + 1 ELSE b[k]]
\* the requests whose URL carried the token, and the history after one more
Asked(track_id) ==
    IF <<"token", track_id>> \in DOMAIN pings THEN pings[<<"token", track_id>>] ELSE 0
Noted(p, track_id) ==
    [k \in DOMAIN p \cup {<<"token", track_id>>} |->
        IF k = <<"token", track_id>> THEN Asked(track_id) + 1 ELSE p[k]]
Room(route, c, cap, burst) == Len(hits) < cap /\ Sent(route, c) < burst
NoRequest == \A h \in Handlers : req[h].pc = "idle"

Track(c, track_id, svc, cap, burst) ==
    /\ NoRequest /\ Room("track", c, cap, burst)
    /\ LET o == track(c, track_id, svc)
       IN hits' = o.hits /\ limStore' = o.limStore
    /\ pings' = Noted(Counted("track", c, track(c, track_id, svc).status), track_id)
    /\ UNCHANGED <<GEO_DB, now, users, session, files, req, dbLock>>

ProxyImage(c, track_id, filename, svc, cap) ==
    /\ NoRequest /\ Room("proxy_image", c, cap, cap)
    /\ LET o == proxy_image(c, track_id, filename, svc)
       IN hits' = o.hits /\ limStore' = o.limStore
    /\ pings' = Noted(Counted("proxy_image", c,
                             proxy_image(c, track_id, filename, svc).status), track_id)
    /\ UNCHANGED <<GEO_DB, now, users, session, files, req, dbLock>>

DlPdf(c, track_id, pdfname, svc, cap) ==
    /\ NoRequest /\ Room("dl_pdf", c, cap, cap)
    /\ LET o == dl_pdf(c, track_id, pdfname, svc)
       IN hits' = o.hits /\ limStore' = o.limStore
    /\ pings' = Noted(Counted("dl_pdf", c, dl_pdf(c, track_id, pdfname, svc).status), track_id)
    /\ UNCHANGED <<GEO_DB, now, users, session, files, req, dbLock>>

\* download_generated, logs, api_logs and index write nothing
DownloadGenerated(c, name) ==
    /\ NoRequest /\ download_generated(name).status \in {200, 404}
    /\ UNCHANGED vars

Logs(c) ==
    /\ NoRequest /\ logs(Cookie(c)).status \in {200, 302}
    /\ UNCHANGED vars

ApiLogs(c) ==
    /\ NoRequest /\ api_logs(Cookie(c)).status \in {200, 401}
    /\ UNCHANGED vars

\* the browser keeps the cookie a response sets; the other callers drop it
Kept(c, s) == IF c.cookies THEN s ELSE session

Login(c, username, password) ==
    /\ NoRequest
    /\ session' = Kept(c, login(Cookie(c), username, password).session)
    /\ UNCHANGED <<GEO_DB, now, limStore, hits, users, files, pings, req, dbLock>>

Register(c, username, password) ==
    /\ NoRequest
    /\ users' = register(username, password).users
    /\ UNCHANGED <<GEO_DB, now, limStore, hits, session, files, pings, req, dbLock>>

Logout(c) ==
    /\ NoRequest
    /\ session' = Kept(c, logout(Cookie(c)).session)
    /\ UNCHANGED <<GEO_DB, now, limStore, hits, users, files, pings, req, dbLock>>

Make(c, method, form, track_id, fetch, svc, cap) ==
    /\ NoRequest
    /\ fetch = "answered" => Room("track", Self, cap, cap)
    /\ LET o == make(Cookie(c), method, form, track_id, fetch, svc)
       IN /\ hits' = o.hits /\ limStore' = o.limStore /\ files' = o.files
          /\ pings' = IF o.limStore # limStore THEN Noted(Bump("track", Self), track_id)
                      ELSE pings
    /\ UNCHANGED <<GEO_DB, now, users, session, req, dbLock>>

\* a minute passes: the storage drops the windows that have ended
Tick ==
    /\ NoRequest /\ now < MaxTime
    /\ now' = now + 1
    /\ limStore' = Expire(limStore, now + 1)
    /\ pings' = [k \in {x \in DOMAIN pings : x[1] \notin HitRoutes} |-> pings[k]]
    /\ UNCHANGED <<GEO_DB, hits, users, session, files, req, dbLock>>

Credentials == {<<ADMIN_ID, ADMIN_PASSWORD>>, <<ADMIN_ID, "wrong">>, <<"bob", "pw">>,
                <<"bob", "wrong">>}
Registrations == {<<"bob", "pw">>, <<"", "pw">>}
Methods == {"GET", "POST"}
Fetches == {"answered", "unreachable"}

\* The inputs a request is drawn from.  An input the handler never reads on
\* the path taken is drawn from one value: ip-api.com is only asked without
\* the database, the form is only read on POST, a token is only drawn
\* once the image has been opened, and the pixel is only fetched on the PNG
\* branch.  The browser is the caller that keeps a session.
SvcRead == IF GEO_DB = NONE THEN Services ELSE {"answers"}
FormsRead(m) == IF m = "POST" THEN Forms ELSE {[mode |-> NONE, image |-> "none"]}
FetchesRead(m, f) ==
    IF m = "POST" /\ f.image # "corrupt" /\ ModeOf(f) # "svg" THEN Fetches ELSE {"unreachable"}
IdsRead(m, f) == IF m = "POST" /\ f.image # "corrupt" THEN Ids ELSE {"abcd1234"}
SvcFetched(fetch) == IF fetch = "answered" THEN SvcRead ELSE {"answers"}

\* the requests callers P send for the tokens I, the store holding at most cap rows
Requests(P, I, cap) ==
    \/ \E c \in P, i \in I, svc \in SvcRead : Track(c, i, svc, cap, cap)
    \/ \E c \in P, i \in I, svc \in SvcRead :
          ProxyImage(c, i, Name("tracked", i, "png"), svc, cap)
    \/ \E c \in P, i \in I, svc \in SvcRead :
          DlPdf(c, i, Name("wrapped", i, "pdf"), svc, cap)
    \/ \E c \in P, i \in I : DownloadGenerated(c, Name("wrapped", i, "html"))
    \/ Logs(Browser)
    \/ ApiLogs(Browser)
    \/ \E cr \in Credentials : Login(Browser, cr[1], cr[2])
    \/ \E rg \in Registrations : Register(Browser, rg[1], rg[2])
    \/ Logout(Browser)
    \/ \E m \in Methods : \E f \in FormsRead(m) : \E i \in IdsRead(m, f) \cap I :
          \E fetch \in FetchesRead(m, f) : \E svc \in SvcFetched(fetch) :
             Make(Browser, m, f, i, fetch, svc, cap)

\* a viewer without a session pings any token while the browser's user logs
\* in, registers and generates
Next == Requests({Viewer}, Ids, MaxHits)

Spec == Init /\ [][Next]_vars

\* the same routes with the browser, under its session, pinging one token:
\* a deeper store
NextDeep == Requests({Browser}, {"abcd1234"}, MaxDeep)

SpecDeep == Init /\ [][NextDeep]_vars

\* Two minutes of pings for one token with ip-api.com down: one host sends
\* past the ceiling, a second host passes on the same X-Forwarded-For.
Burst == PerMinute + MaxExtra
RateRows == PerMinute + MaxExtra + MaxTime

NextRate ==
    \/ Track(Viewer, "abcd1234", "fails", RateRows, Burst)
    \/ Track(Viewer2, "abcd1234", "fails", RateRows, MaxExtra)
    \/ Tick

\* the limiter does not read the resolver: the run is without the database
InitRate == Init /\ GEO_DB = NONE

SpecRate == InitRate /\ [][NextRate]_vars

\* The same two minutes on the routes that serve files: one host sends
\* /proxy_image past sixty requests, a second host opens with /dl_pdf.
NextServe ==
    \/ ProxyImage(Viewer, "abcd1234", Name("tracked", "abcd1234", "png"), "fails", RateRows)
    \/ DlPdf(Viewer2, "abcd1234", Name("wrapped", "abcd1234", "pdf"), "fails", MaxExtra)
    \/ Tick

SpecServe == InitRate /\ [][NextServe]_vars

\* One browser session through logins, registrations and logouts; one of the
\* accounts registered carries the admin's name with a password of its own.
AccountCredentials == Credentials \cup {<<ADMIN_ID, "pw">>, <<"eve", "pw">>}
AccountRegistrations == Registrations \cup {<<ADMIN_ID, "pw">>, <<"bob", "other">>}

NextAccounts ==
    \/ \E cr \in AccountCredentials : Login(Browser, cr[1], cr[2])
    \/ \E rg \in AccountRegistrations : Register(Browser, rg[1], rg[2])
    \/ Logout(Browser)
    \/ Logs(Browser)
    \/ ApiLogs(Browser)
    \/ \E f \in FormsRead("POST") : \E i \in IdsRead("POST", f) :
          Make(Browser, "POST", f, i, "unreachable", "answers", MaxHits)

SpecAccounts == Init /\ [][NextAccounts]_vars

----------------------------------------------------------------------------
(* Requests handled by concurrent threads, one statement group at a time.  *)
(* A slot of req holds a request from its arrival until its response has   *)
(* been sent.  Two fields are history: `began`, the requests answered 500 *)
(* before this one arrived, and `opened`, the rows in the store when this  *)
(* request opened its connection.                                          *)

RECURSIVE SumOf(_, _)
SumOf(f, keys) ==
    IF keys = {} THEN 0
    ELSE LET k == CHOOSE x \in keys : TRUE IN f[k] + SumOf(f, keys \ {k})

\* requests received on the hit routes, and requests answered 500
Received == SumOf(pings, {k \in DOMAIN pings : k[1] \in HitRoutes})
Failed(c) == Sent("500", c)
AllFailed == SumOf(pings, {k \in DOMAIN pings : k[1] = "500"})

At(h, pc) == req[h].pc = pc
Goto(h, pc) == req' = [req EXCEPT ![h].pc = pc]

\* the request arrives at a free thread
Receive(h, route, c, track_id) ==
    /\ At(h, "idle") /\ Received < MaxCalls
    /\ req' = [req EXCEPT ![h] =
                 [pc |-> "received", route |-> route, c |-> c, track_id |-> track_id,
                  user_id |-> RequesterId(Cookie(c)), loc |-> Unknown, txn |-> <<>>,
                  error |-> NONE, status |-> 0,
                  began |-> AllFailed, opened |-> 0]]
    /\ pings' = Noted(Bump(route, c), track_id)
    /\ UNCHANGED <<GEO_DB, now, limStore, hits, users, session, files, dbLock>>

\* flask_limiter's before_request check
RateCheck(h) ==
    /\ At(h, "received")
    /\ LET lim == limiter(req[h].route, req[h].c, limStore, now)
       IN /\ limStore' = lim.store
          /\ req' = [req EXCEPT ![h].pc = IF lim.ok THEN "rate-checked" ELSE "responded",
                                ![h].status = IF lim.ok THEN 0 ELSE 429]
    /\ UNCHANGED <<GEO_DB, now, hits, users, session, files, pings, dbLock>>

\* a variant that runs the resolver before the limiter has been asked
EnrichUnchecked(h, svc) ==
    /\ At(h, "received")
    /\ req' = [req EXCEPT ![h].pc = "enriched",
                          ![h].loc = geo_ip(GEO_DB, ClientIp(req[h].c), svc).loc]
    /\ UNCHANGED <<GEO_DB, now, limStore, hits, users, session, files, pings, dbLock>>

\* lat, lon, city, region, country = geo_ip(ip)
Enrich(h, svc) ==
    /\ At(h, "rate-checked")
    /\ req' = [req EXCEPT ![h].pc = "enriched",
                          ![h].loc = geo_ip(GEO_DB, ClientIp(req[h].c), svc).loc]
    /\ UNCHANGED <<GEO_DB, now, limStore, hits, users, session, files, pings, dbLock>>

\* insert_hit: conn = sqlite3.connect(DB_FILE)
Connect(h) ==
    /\ At(h, "enriched")
    /\ req' = [req EXCEPT ![h].pc = "connected", ![h].opened = Len(hits)]
    /\ UNCHANGED <<GEO_DB, now, limStore, hits, users, session, files, pings, dbLock>>

\* a faulty variant: a writer does not wait for the lock
CanWriteAlways(lock) == TRUE

\* sqlite lets one connection write at a time; another waits for the lock
CanWrite(lock) == lock = NoHolder

\* insert_hit: c.execute(INSERT ...) begins a transaction, takes the write
\* lock and adds the row to the transaction's image of the table
Execute(h) ==
    /\ At(h, "connected") /\ CanWrite(dbLock)
    /\ dbLock' = {h}
    /\ req' = [req EXCEPT ![h].pc = "executed",
                          ![h].txn = insert_hit(hits, req[h].track_id, req[h].user_id,
                                                ClientIp(req[h].c), UserAgent(req[h].c),
                                                now, req[h].loc)]
    /\ UNCHANGED <<GEO_DB, now, limStore, hits, users, session, files, pings>>

\* insert_hit: conn.commit() writes the image and releases the lock
Commit(h) ==
    /\ At(h, "executed")
    /\ hits' = req[h].txn
    /\ dbLock' = dbLock \ {h}
    /\ Goto(h, "committed")
    /\ UNCHANGED <<GEO_DB, now, limStore, users, session, files, pings>>

\* insert_hit: conn.close()
Close(h) ==
    /\ At(h, "committed")
    /\ Goto(h, "closed")
    /\ UNCHANGED <<GEO_DB, now, limStore, hits, users, session, files, pings, dbLock>>

\* the view returns its response: the pixel, the file, or "Not found"
Respond(h) ==
    /\ At(h, "closed")
    /\ req' = [req EXCEPT ![h].pc = "responded",
                          ![h].status =
                              IF req[h].route = "track" THEN 200
                              ELSE IF req[h].route = "proxy_image"
                              THEN Served(Name("tracked", req[h].track_id, "png"),
                                          "image/png").status
                              ELSE Served(Name("wrapped", req[h].track_id, "pdf"),
                                          "application/pdf").status]
    /\ UNCHANGED <<GEO_DB, now, limStore, hits, users, session, files, pings, dbLock>>

\* the response has been sent and the thread is free again
Return(h) ==
    /\ At(h, "responded")
    /\ req' = [req EXCEPT ![h] = Idle]
    /\ UNCHANGED <<GEO_DB, now, limStore, hits, users, session, files, pings, dbLock>>

\* the steps of thread h, the requests arriving on the routes R from the
\* callers P
Steps(h, R, P) ==
    \/ \E route \in R, c \in P : Receive(h, route, c, "abcd1234")
    \/ RateCheck(h)
    \/ \E svc \in SvcRead : Enrich(h, svc)
    \/ Connect(h)
    \/ Execute(h)
    \/ Commit(h)
    \/ Close(h)
    \/ Respond(h)
    \/ Return(h)

NextConc == \E h \in Handlers : Steps(h, {"track", "proxy_image"}, Clients)

SpecConc == Init /\ [][NextConc]_vars

\* the same threads serving one caller
NextOrder == \E h \in Handlers : Steps(h, {"track", "proxy_image"}, {Viewer})

SpecOrder == Init /\ [][NextOrder]_vars

----------------------------------------------------------------------------
(* The same threads with a store that may reject: sqlite3 raises when the  *)
(* file cannot be opened, when the statement cannot run (the lock is not   *)
(* released within the busy timeout, the disk is full) or when the commit  *)
(* cannot be written.  insert_hit catches nothing, so the exception leaves *)
(* the view and Flask answers 500.  conn.close() is skipped: the           *)
(* connection, with the lock its transaction may hold, lives until Python  *)
(* finalises it, which may be before or after later requests (the frames   *)
(* of the traceback keep it alive for as long as something holds them).    *)

Raise(h, error) == req' = [req EXCEPT ![h].pc = "failed", ![h].error = error]

ConnectFails(h) ==
    /\ At(h, "enriched")
    /\ Raise(h, "connect")
    /\ UNCHANGED <<GEO_DB, now, limStore, hits, users, session, files, pings, dbLock>>

ExecuteFails(h) ==
    /\ At(h, "connected")
    /\ Raise(h, "execute")
    /\ UNCHANGED <<GEO_DB, now, limStore, hits, users, session, files, pings, dbLock>>

CommitFails(h) ==
    /\ At(h, "executed")
    /\ Raise(h, "commit")
    /\ UNCHANGED <<GEO_DB, now, limStore, hits, users, session, files, pings, dbLock>>

\* a faulty variant: the rows of the abandoned transaction stay
rollback_keeps(table, txn) == IF txn = <<>> THEN table ELSE txn

\* a transaction that is never committed leaves the table as it was
rollback(table, txn) == table

\* the exception unwinds insert_hit and the view, and Flask's error handler
\* answers; the lock of the abandoned transaction passes to the dropped
\* connection
Abort(h) ==
    /\ At(h, "failed")
    /\ hits' = rollback(hits, req[h].txn)
    /\ dbLock' = IF h \in dbLock THEN {Dropped} ELSE dbLock
    /\ req' = [req EXCEPT ![h].pc = "responded", ![h].status = 500]
    /\ pings' = Bump("500", req[h].c)
    /\ UNCHANGED <<GEO_DB, now, limStore, users, session, files>>

\* the dropped connection is finalised: sqlite closes it and frees the lock
Collect ==
    /\ Dropped \in dbLock
    /\ dbLock' = dbLock \ {Dropped}
    /\ UNCHANGED <<GEO_DB, now, limStore, hits, users, session, files, pings, req>>

NextFault ==
    \/ \E h \in Handlers :
          \/ Steps(h, {"track"}, Clients)
          \/ ConnectFails(h)
          \/ ExecuteFails(h)
          \/ CommitFails(h)
          \/ Abort(h)
    \/ Collect

SpecFault == Init /\ [][NextFault]_vars

----------------------------------------------------------------------------
(* Properties of single requests (Spec).  A property of a route is stated  *)
(* in every reachable state, for every request that may arrive there.      *)

\* the tokens carried by the files of OUTDIR
IssuedIds == {n[2] : n \in files}

\* the last row of a table
Last(table) == table[Len(table)]

\* the table is `before` followed by exactly one new row
OneRowAdded(before, table) ==
    Len(table) = Len(before) + 1 /\ SubSeq(table, 1, Len(before)) = before

\* C2: a ping to /track that passes the rate check, for any token, is
\* answered 200 with the pixel and adds exactly one row, which carries the
\* token of the URL, the address the request presents (the first
\* X-Forwarded-For entry, or the transport address without the header), the
\* User-Agent sent ("" without one) and the current time.
C2_PingRecorded ==
    \A c \in AllClients, i \in Ids, svc \in Services :
        LET o == track(c, i, svc)
        IN o.status # 429 =>
            /\ o.status = 200 /\ o.body.mime = "image/png" /\ o.body.kind = "pixel"
            /\ OneRowAdded(hits, o.hits)
            /\ Last(o.hits).track_id = i
            /\ Last(o.hits).ip = (IF c.hasXff THEN c.xff[1] ELSE c.remote)
            /\ Last(o.hits).ua = (IF c.hasUa THEN c.ua ELSE "")
            /\ Last(o.hits).ts = <<now, "Z">>

\* the only row was left by a ping to /track for a token no file carries
C2_Witness ==
    /\ Sent("track", Viewer) = 1 /\ Len(hits) = 1
    /\ hits[1].track_id \notin IssuedIds
    /\ hits[1].ip = "203.0.113.5" /\ hits[1].ua = ""

\* C5: without the geo database and with ip-api.com failing, geo_ip gives
\* five Nones, a ping that passes the rate check is answered 200 and its row
\* has the five location columns null; and on no hit route does a request
\* end in a server error, whatever the resolver meets.
C5_GeoDownStillRecorded ==
    /\ GEO_DB = NONE =>
         \A c \in AllClients, i \in Ids :
            LET g == geo_ip(GEO_DB, ClientIp(c), "fails").loc
                o == track(c, i, "fails")
            IN /\ \A col \in DOMAIN g : g[col] = NONE
               /\ o.status # 429 =>
                    /\ o.status = 200 /\ OneRowAdded(hits, o.hits)
                    /\ \A col \in {"lat", "lon", "city", "region", "country"} :
                          Last(o.hits)[col] = NONE
    /\ \A c \in AllClients, i \in Ids, svc \in Services :
          /\ track(c, i, svc).status \in {200, 429}
          /\ proxy_image(c, i, Name("tracked", i, "png"), svc).status \in {200, 404, 429}
          /\ dl_pdf(c, i, Name("wrapped", i, "pdf"), svc).status \in {200, 404, 429}

\* without the database, a ping from an address ip-api.com could place was
\* recorded while the service failed
C5_Witness ==
    /\ GEO_DB = NONE
    /\ Sent("track", Viewer) = 1 /\ Len(hits) = 1
    /\ hits[1].ip \in DOMAIN GeoData
    /\ hits[1].city = NONE /\ hits[1].lat = NONE

\* C7: a request to /proxy_image or /dl_pdf that passes the rate check and
\* names a file not in OUTDIR is answered 404 and still adds exactly one row
\* for the token of the URL; /download_generated for such a file is 404.
C7_MissingFileStillRecorded ==
    /\ \A c \in AllClients, i \in Ids, svc \in Services :
          /\ \A j \in Ids :
                Name("tracked", j, "png") \notin files =>
                   LET p == proxy_image(c, i, Name("tracked", j, "png"), svc)
                   IN p.status # 429 =>
                        /\ p.status = 404 /\ OneRowAdded(hits, p.hits)
                        /\ Last(p.hits).track_id = i
          /\ \A j \in Ids :
                Name("wrapped", j, "pdf") \notin files =>
                   LET d == dl_pdf(c, i, Name("wrapped", j, "pdf"), svc)
                   IN d.status # 429 =>
                        /\ d.status = 404 /\ OneRowAdded(hits, d.hits)
                        /\ Last(d.hits).track_id = i
    /\ \A n \in AllNames \ files : download_generated(n).status = 404

\* the only row was left by a request to /proxy_image whose file is absent
C7_Witness ==
    /\ Sent("proxy_image", Viewer) = 1 /\ Len(hits) = 1
    /\ Name("tracked", hits[1].track_id, "png") \notin files

\* C9 as claimed: a logged-in caller's generation request whose mode is
\* neither "svg" nor "png" is answered with a client error and writes no file.
C9_UnsupportedFormatRejected ==
    \A f \in Forms, i \in Ids, fetch \in Fetches, svc \in Services :
        (Truthy(session.username) /\ f.image # "corrupt" /\ ModeOf(f) \notin {"svg", "png"}) =>
            LET o == make(session, "POST", f, i, fetch, svc)
            IN o.status \in 400..499 /\ o.files = files

\* C10 as claimed: no two generated artifacts carry the same token.  Every
\* generation writes one tracked file, so no token has two of them.
C10_UniqueIdentifiers ==
    \A i \in Ids : ~(Name("tracked", i, "svg") \in files /\ Name("tracked", i, "png") \in files)

\* every POST to /make with session s is sent to the login page, writes no
\* file and leaves the hit store and the limiter as they are
Rejected(s) ==
    \A f \in FormsRead("POST") : \A i \in IdsRead("POST", f) :
        \A fetch \in FetchesRead("POST", f) : \A svc \in SvcFetched(fetch) :
            LET o == make(s, "POST", f, i, fetch, svc)
            IN /\ o.status = 302 /\ o.body = RedirectTo("login")
               /\ o.files = files /\ o.hits = hits /\ o.limStore = limStore

\* the session is the one a successful login sets
SetByLogin(s) ==
    \E cr \in Credentials :
        LET o == login(EmptySession, cr[1], cr[2])
        IN o.status = 302 /\ o.body = RedirectTo("make") /\ o.session = s

\* C13: a POST to /make produces an artifact only from a session that a
\* successful login has set and no logout has cleared.  The session is
\* always either empty or the one a successful login set; with the empty
\* session (no login yet, or only failed ones) the request is rejected, it is
\* rejected after a failed login on the empty session, and from every state
\* it is rejected once the session has logged out: no file is written and
\* nothing is recorded.
C13_MakeNeedsLogin ==
    /\ session = EmptySession \/ SetByLogin(session)
    /\ session = EmptySession =>
          /\ Rejected(session)
          /\ \A cr \in Credentials :
                LET o == login(session, cr[1], cr[2])
                IN o.status # 302 => Rejected(o.session)
    /\ Rejected(logout(session).session)

\* files were generated under a login, the session has since logged out, and
\* a POST to /make is now sent to the login page
C13_Witness ==
    /\ files # {} /\ users # <<>>
    /\ session = EmptySession
    /\ make(session, "POST", [mode |-> "svg", image |-> "valid"], "zzzz9999",
            "unreachable", "answers").status = 302
    /\ "zzzz9999" \notin IssuedIds

\* the rows that carry the token, and the requests answered 429
RowsFor(track_id) == {k \in 1..Len(hits) : hits[k].track_id = track_id}
AllThrottled == SumOf(pings, {k \in DOMAIN pings : k[1] = "429"})

\* C11 as claimed: every row of the hit store carries a token that a
\* generation request has issued (a token some file of OUTDIR carries).
C11_IssuedOnly ==
    \A k \in 1..Len(hits) : hits[k].track_id \in IssuedIds

\* C11, amended: the token of a row is the token of the URL of the request
\* that appended it, issued or not: for every token the rows carrying it are
\* as many as the requests that named it in their URL, less the requests
\* answered 429.
C11_TokenOfUrl ==
    \A i \in Ids :
        /\ Cardinality(RowsFor(i)) <= Asked(i)
        /\ Asked(i) <= Cardinality(RowsFor(i)) + AllThrottled

\* a generation has issued a token, and the only row, left by a request to
\* /dl_pdf, carries a token no generation issued
C11_Witness ==
    /\ files # {}
    /\ Sent("dl_pdf", Viewer) = 1 /\ Len(hits) = 1
    /\ Asked(hits[1].track_id) = 1
    /\ hits[1].track_id \notin IssuedIds

\* C16 as claimed: a PDF can be generated in redirect mode, and a ping for
\* such a PDF is answered with an HTTP redirect and appends exactly one row.
\* Generation has one PDF branch, taken for every mode but "svg"; the routes
\* a PDF's token can be pinged on are /track, /proxy_image and /dl_pdf.
C16_RedirectMode ==
    \A i \in Ids, fetch \in Fetches, svc \in Services :
        LET made == make(session, "POST", [mode |-> "redirect", image |-> "valid"],
                         i, fetch, svc)
            pdf == Name("wrapped", i, "pdf")
        IN (made.status = 200 /\ pdf \in made.files /\ pdf \in files) =>
              \A c \in AllClients :
                  \E o \in {track(c, i, svc), dl_pdf(c, i, pdf, svc),
                            proxy_image(c, i, Name("tracked", i, "png"), svc)} :
                      /\ o.status \in 301..308
                      /\ OneRowAdded(hits, o.hits)

\* C18 as claimed: geo_ip asks ip-api.com whenever the database is absent or
\* gives no place for the address, and answers five Nones only after
\* ip-api.com has been asked; a place the database gives is returned without
\* asking ip-api.com.
C18_FallbackChain ==
    \A c \in AllClients, svc \in Services :
        LET g == geo_ip(GEO_DB, ClientIp(c), svc)
        IN /\ g.loc = Unknown => g.path = "remote"
           /\ (GEO_DB # NONE /\ g.loc # Unknown) => g.path = "local"

\* C19 as claimed: a POST to /make, whatever it generates, leaves the hit
\* store as it was.
C19_MakeRecordsNothing ==
    \A f \in FormsRead("POST") : \A i \in IdsRead("POST", f) :
        \A fetch \in FetchesRead("POST", f) : \A svc \in SvcFetched(fetch) :
            make(session, "POST", f, i, fetch, svc).hits = hits

----------------------------------------------------------------------------
(* Properties of the store across requests (SpecDeep).                     *)

\* C3: whatever request is handled (generation, ping, download, listing,
\* login, register, logout), every row the hit store held before it is still
\* there afterwards, at the same place and with every column unchanged.
C3_AppendOnly ==
    [][\A k \in 1..Len(hits) : k <= Len(hits') /\ hits'[k] = hits[k]]_vars

\* the same token was pinged twice and both rows are in the store
C3_Witness ==
    /\ Len(hits) = 2
    /\ hits[1].track_id = hits[2].track_id
    /\ hits[1].id = 1 /\ hits[2].id = 2

\* C14: the row a ping appends carries the user id of the session the ping
\* was sent with: the id the login set ("admin", or the number of the users
\* row) while that login is in force, and "anonymous" with no login or after
\* logout.  The pixel request the server itself sends while generating a PDF
\* has no session and is recorded as anonymous.
C14_RequesterOfSession ==
    [][Len(hits') > Len(hits) =>
          LET r == Last(hits')
          IN IF Sent("track", Self)' # Sent("track", Self)
             THEN r.user_id = ANON
             ELSE /\ session = EmptySession => r.user_id = ANON
                  /\ session # EmptySession =>
                        /\ SetByLogin(session)
                        /\ r.user_id = session.user_id /\ r.user_id # ANON
                        /\ r.user_id # "admin" =>
                              \E u \in 1..Len(users) :
                                  /\ users[u].username = session.username
                                  /\ r.user_id = ToString(users[u].id)]_vars

\* the browser pinged as admin, logged out and pinged again: the first row
\* carries "admin", the second "anonymous"
C14_Witness ==
    /\ Len(hits) = 2 /\ Sent("track", Self) = 0
    /\ hits[1].user_id = "admin" /\ hits[2].user_id = ANON
    /\ session = EmptySession

\* the ids of the rows a listing shows, and of the rows recorded for a caller
Listed(o) == {o.rows[k].id : k \in 1..Len(o.rows)}
OwnRows(s) == {hits[k].id : k \in {j \in 1..Len(hits) : hits[j].user_id = s.user_id}}

\* C12 as claimed: /logs and /api/logs show a logged-in caller who is not the
\* admin exactly the rows recorded under the caller's own user id, and show
\* the admin every row of the store.
C12_OwnRowsListed ==
    Truthy(session.username) =>
        \A o \in {logs(session), api_logs(session)} :
            IF Truthy(session.admin)
            THEN Listed(o) = {hits[k].id : k \in 1..Len(hits)}
            ELSE Listed(o) = OwnRows(session)

----------------------------------------------------------------------------
(* Properties of the session (SpecAccounts).                               *)

\* the admin key is set to true exactly with user_id "admin" and role "admin"
KeysAgree(s) == s.admin = "True" <=> (s.user_id = "admin" /\ s.role = "admin")

\* /logs, /api/logs and /make turn the session away
Refused(s) ==
    /\ logs(s).status = 302 /\ logs(s).body = RedirectTo("login") /\ logs(s).rows = <<>>
    /\ api_logs(s).status = 401 /\ api_logs(s).rows = <<>>
    /\ Rejected(s)

\* C20: through any sequence of logins, failed logins, registrations and
\* logouts on one session, admin is true exactly when user_id is "admin" and
\* role is "admin"; a login that fails leaves the four keys as they were;
\* logout leaves none of the four keys set, and a session without them is
\* turned away by /logs, /api/logs and /make; the keys are set only as a
\* login that succeeds sets them.
C20_SessionKeys ==
    /\ KeysAgree(session)
    /\ \A cr \in AccountCredentials :
          LET o == login(session, cr[1], cr[2])
          IN /\ KeysAgree(o.session)
             /\ o.status # 302 => o.session = session
    /\ logout(session).session = EmptySession
    /\ Refused(logout(session).session)
    /\ session # EmptySession =>
          \E cr \in AccountCredentials :
              LET o == login(EmptySession, cr[1], cr[2])
              IN /\ o.status = 302 /\ o.session = session
                 /\ \/ cr = <<ADMIN_ID, ADMIN_PASSWORD>>
                    \/ \E u \in 1..Len(users) :
                          /\ users[u].username = cr[1]
                          /\ users[u].password = generate_password_hash(cr[2])

\* two accounts are registered, one under the admin's name; the session is
\* logged in to that account and is not an admin session
C20_Witness ==
    /\ Len(users) = 2
    /\ session.username = ADMIN_ID /\ session.admin = "False"
    /\ session.role = "user" /\ session.user_id \notin {NONE, "admin"}
    /\ \E cr \in AccountCredentials :
          login(session, cr[1], cr[2]).status = 200

----------------------------------------------------------------------------
(* Properties of the rate limit on /track (SpecRate).                      *)

\* the rows recorded for address a in minute w
RowsFrom(a, w) == {i \in 1..Len(hits) : hits[i].ip = a /\ hits[i].ts = utcnow(w)}

\* C1: a ping to /track from a host that has already sent 60 pings in the
\* current minute is answered 429, appends no row and runs no resolver; a ping
\* from a host that has sent fewer than 60 in the current minute (none yet,
\* when a new minute has begun) is answered 200 and appends one row.
C1_SixtyPerMinute ==
    \A c \in RateClients, i \in Ids, svc \in Services :
        LET o == track(c, i, svc)
        IN /\ Sent("track", c) >= 60 =>
                o.status = 429 /\ o.hits = hits /\ o.resolver = "not called"
           /\ Sent("track", c) < 60 =>
                o.status = 200 /\ Len(o.hits) = Len(hits) + 1

\* one host left sixty rows in the first minute and had a further ping
\* answered 429; its first ping of the second minute left a row
C1_Witness ==
    /\ now = 1
    /\ Sent("429", Viewer) = 1
    /\ Sent("track", Viewer) = 1 /\ Sent("track", Viewer2) = 0 /\ Sent("429", Viewer2) = 0
    /\ Cardinality(RowsFrom(ClientIp(Viewer), 0)) = 60
    /\ Cardinality(RowsFrom(ClientIp(Viewer), 1)) = 1

\* C6 as claimed: the address the rows carry is the address the limit counts,
\* so no address has more than 60 rows recorded through /track in one minute.
C6_SixtyRowsPerAddress ==
    \A c \in RateClients, w \in 0..MaxTime :
        Cardinality(RowsFrom(ClientIp(c), w)) <= 60

----------------------------------------------------------------------------
(* Properties of the limits on /proxy_image and /dl_pdf (SpecServe).       *)

\* C15 as claimed: on each of /track, /proxy_image and /dl_pdf, a request
\* from a host that has already sent 60 requests to that route in the current
\* minute is answered 429 and appends no row.
C15_SixtyOnEveryHitRoute ==
    \A c \in RateClients, i \in Ids, svc \in Services :
        /\ Sent("track", c) >= 60 =>
              LET o == track(c, i, svc) IN o.status = 429 /\ o.hits = hits
        /\ Sent("proxy_image", c) >= 60 =>
              LET o == proxy_image(c, i, Name("tracked", i, "png"), svc)
              IN o.status = 429 /\ o.hits = hits
        /\ Sent("dl_pdf", c) >= 60 =>
              LET o == dl_pdf(c, i, Name("wrapped", i, "pdf"), svc)
              IN o.status = 429 /\ o.hits = hits

----------------------------------------------------------------------------
(* Properties of concurrent and failing appends (SpecConc, SpecOrder,      *)
(* SpecFault).                                                             *)

\* the rows recorded for caller c, the requests of c still under way, and
\* the requests c has sent
RowsOf(c) == {k \in 1..Len(hits) : hits[k].ip = ClientIp(c)}
Underway(c) ==
    {h \in Handlers :
        req[h].pc \notin {"idle", "committed", "closed", "responded"} /\ req[h].c = c}
SentBy(c) == Sent("track", c) + Sent("proxy_image", c)

\* C4: with requests overlapping in any way, every call of insert_hit that
\* has committed has left exactly one row: for each caller the rows stored
\* and the requests still under way add up to the requests sent, and the
\* rows are numbered 1, 2, ... without a gap or a repeat.
C4_NoLostInsert ==
    /\ \A c \in Clients : Cardinality(RowsOf(c)) + Cardinality(Underway(c)) = SentBy(c)
    /\ \A k \in 1..Len(hits) : hits[k].id = k

\* two requests have been answered; one of them opened its connection on an
\* empty store and inserted only after the other had committed
C4_Witness ==
    /\ \A h \in Handlers : At(h, "responded") /\ req[h].status = 200
    /\ Len(hits) = 2
    /\ \E h \in Handlers : req[h].opened = 0 /\ Len(req[h].txn) = 2

\* the order of the steps of one request
StepOrder ==
    {<<"idle", "received">>, <<"received", "rate-checked">>, <<"received", "responded">>,
     <<"rate-checked", "enriched">>, <<"enriched", "connected">>,
     <<"connected", "executed">>, <<"executed", "committed">>, <<"committed", "closed">>,
     <<"closed", "responded">>, <<"responded", "idle">>}

\* C17: a request on /track or /proxy_image moves through received, rate
\* check, geo_ip, insert_hit (connect, execute, commit, close) and response in
\* that order, one step at a time and none twice (a request the limiter
\* refuses goes from received to its response at once).  geo_ip runs only
\* for a request the limiter has counted and passed;
\* the store grows only by the commit of a request whose geo_ip has returned,
\* by the one row holding what geo_ip gave; the response of an accepted
\* request is sent only when its row is in the store.
C17_StepsInOrder ==
    [][\A h \in Handlers :
          /\ req'[h].pc # req[h].pc => <<req[h].pc, req'[h].pc>> \in StepOrder
          /\ (At(h, "rate-checked") /\ req'[h].pc = "enriched") =>
                /\ \A i \in 1..Len(LimitsOf(req[h].route)) :
                      LET e == Entry(limStore, <<req[h].route, req[h].c.remote, i>>)
                      IN e.count >= 1 /\ e.count <= LimitsOf(req[h].route)[i].amount
                /\ hits' = hits
          /\ (At(h, "executed") /\ req'[h].pc = "committed") =>
                /\ OneRowAdded(hits, hits')
                /\ Last(hits').track_id = req[h].track_id
                /\ \A col \in {"lat", "lon", "city", "region", "country"} :
                      Last(hits')[col] = req[h].loc[col]
          /\ (At(h, "closed") /\ req'[h].pc = "responded") =>
                /\ req'[h].status \in {200, 404}
                /\ Len(req[h].txn) <= Len(hits)
                /\ hits[Len(req[h].txn)] = Last(req[h].txn)
          /\ hits' # hits =>
                \E g \in Handlers : At(g, "executed") /\ req'[g].pc = "committed"]_vars

\* a ping to /track has been answered 200 with its row in the store while a
\* request to /proxy_image has come back from geo_ip and not yet opened the
\* store
C17_Witness ==
    \E h, g \in Handlers :
        /\ At(h, "responded") /\ req[h].route = "track" /\ req[h].status = 200
        /\ Len(hits) = 1 /\ hits[1] = Last(req[h].txn)
        /\ At(g, "enriched") /\ req[g].route = "proxy_image"

\* C8: a request whose append the store rejected is answered 500 and leaves
\* no row, whole or partial: for each caller the rows stored, the requests
\* under way and the requests answered 500 add up to the requests sent, and
\* the rows are numbered without a gap.  The threads keep serving: a request
\* that met no rejection, before or after one that did, is answered 200 with
\* its row stored (or 429, with none, when throttled).
C8_RejectedAppend ==
    /\ \A h \in Handlers :
          At(h, "responded") =>
             IF req[h].error # NONE THEN req[h].status = 500
             ELSE \/ req[h].status = 429 /\ req[h].txn = <<>>
                  \/ /\ req[h].status = 200
                     /\ req[h].txn # <<>> /\ Len(req[h].txn) <= Len(hits)
                     /\ hits[Len(req[h].txn)] = Last(req[h].txn)
    /\ \A c \in Clients :
          Cardinality(RowsOf(c)) + Cardinality(Underway(c)) + Failed(c) = SentBy(c)
    /\ \A k \in 1..Len(hits) : hits[k].id = k

\* a commit was rejected and answered 500; a request that arrived after that
\* was recorded and answered 200
C8_Witness ==
    \E h, g \in Handlers :
        /\ At(h, "responded") /\ req[h].error = "commit" /\ req[h].status = 500
        /\ At(g, "responded") /\ req[g].error = NONE /\ req[g].status = 200
        /\ req[g].began = 1
        /\ Len(hits) = 1 /\ hits[1].ip = ClientIp(req[g].c)
        /\ dbLock = NoHolder
====
